---------------------------- MODULE Spec2Model ----------------------------
(***************************************************************************)
(* go-flake: the 63 bit identifier generator of flake.go.                  *)
(*                                                                         *)
(* TLC's integers are 32 bit, the program's are 64 bit.  A 64 bit quantity *)
(* is therefore kept in pieces:                                            *)
(*   - an interval (and every other "wide" count) is a record              *)
(*     [hi, lo] = hi * 2^16 + lo with 0 <= lo < 2^16;                      *)
(*   - a UnixNano instant is [q, r] = q * 2^ignoredTimeBits + r with q     *)
(*     wide and 0 <= r < 2^ignoredTimeBits;                                *)
(*   - a Flake (int64) that Next returns is the tuple of its 8 bytes, most *)
(*     significant first; a Flake given to the codec is four 16 bit limbs, *)
(*     the first one signed, and Bytes / FromBytes convert between them.   *)
(* int32 values (flaker.sequence) are TLC integers; their arithmetic wraps *)
(* as Go's does.                                                           *)
(***************************************************************************)
EXTENDS Integers, Sequences, FiniteSets, TLC

\* ------------------------------------------------------------ constants
intervalBits == 32
sequenceBits == 23
machineIdBits == 8
ignoredTimeBits == 30

\* the literals of flaker.next
smallLimit == 32          \* 0x20
largeLimit == 8224        \* 0x2020
\* mediumBase with a wrong digit in the literal: 0x1F0000 - 0x2000
mediumBaseShort == 2031616 - 8192

mediumBase == 2097152 - 8192     \* 0x200000 - 0x2000
largeBase == 4194304 - 8224      \* 0x400000 - 0x2020

\* ------------------------------------------------------------ bounds
MaxCalls == 2             \* Next calls started in a run
MaxTicks == 2             \* coarse time units the clock advances in a run
MaxBursts == 2            \* summarised bursts of calls in a run
MaxInstances == 2         \* generator instances alive in a run of ConfigSpec
MaxConfigTicks == 1       \* coarse time units the clock advances in a run of ConfigSpec
MaxSharedCalls == 3       \* Next calls started in a run of SharedSpec
MaxSharedTicks == 1       \* coarse time units the clock advances in a run of SharedSpec
MaxFairCalls == 2         \* Next calls started in a run of FairSpec
MaxLadderCalls == 3       \* Next calls started in a run of LadderSpec
MaxShuffles == 2          \* applications of the shuffle in a run of ShuffleSpec
MaxRegressCalls == 2      \* Next calls started in a run of RegressSpec
MaxClockOn == 1           \* coarse time units the clock may be ahead of the start in RegressSpec and DriftSpec
MaxClockBack == 1         \* coarse time units the clock may be set back behind the start in RegressSpec and DriftSpec
MaxDriftCalls == 2        \* Next calls started in a run of DriftSpec
StartInterval == 3        \* the early start: this many units after the epoch
BurstSize == 70000        \* calls of one summarised burst

\* ------------------------------------------------------------ int32
MaxInt32 == 2147483647  \* the largest int32
MinInt32 == -MaxInt32 - 1

\* a + b in int32, wrapping
Add32(a, b) ==
    IF b > 0 /\ a > MaxInt32 - b THEN (a - MaxInt32 - 1) + (b - MaxInt32 - 1)
    ELSE IF b < 0 /\ a < MinInt32 - b THEN (a + MaxInt32 + 1) + (b + MaxInt32 + 1)
    ELSE a + b

\* x << n that shifts by one bit less
Shl32OneLess(x, n) == (x % (2 ^ (32 - n))) * (2 ^ (n - 1))

\* x << n in int32 (0 < n < 31), wrapping
Shl32(x, n) ==
    LET m == x % (2 ^ (32 - n))
    IN  IF m >= 2 ^ (31 - n) THEN (m - 2 ^ (32 - n)) * (2 ^ n) ELSE m * (2 ^ n)

\* x >> n in int32: the arithmetic shift is the floor division
Shr32(x, n) == x \div (2 ^ n)

RECURSIVE BitOr(_, _)
\* a | b for naturals
BitOr(a, b) ==
    IF a = 0 THEN b
    ELSE IF b = 0 THEN a
    ELSE (IF a % 2 = 1 \/ b % 2 = 1 THEN 1 ELSE 0) + 2 * BitOr(a \div 2, b \div 2)

\* x | v in int32 for 0 <= v < 2^16: only the low 16 bits of x take part
Or32(x, v) == (x - (x % 65536)) + BitOr(x % 65536, v)

\* ------------------------------------------------------------ wide integers
Limb == 2 ^ 16

W(h, l) == [hi |-> h + (l \div Limb), lo |-> l % Limb]

WZero == W(0, 0)

\* w + n for an int32 n of small magnitude
WAdd(w, n) == W(w.hi, w.lo + n)

WSub(a, b) == W(a.hi - b.hi, a.lo - b.lo)

WLe(a, b) == a.hi < b.hi \/ (a.hi = b.hi /\ a.lo <= b.lo)

\* w & intervalMask
intervalMask(w) == [hi |-> w.hi % (2 ^ (intervalBits - 16)), lo |-> w.lo]

\* int64(byte) & machineIdMask
machineIdMask(b) == b % (2 ^ machineIdBits)

\* ------------------------------------------------------------ instants
\* q units and r nanoseconds
Instant(q, r) == [q |-> q, r |-> r]

\* time.Unix(0, 0).UnixNano()
Unix0 == Instant(W(0, 0), 0)

\* 1577833200000000000 = 1469471678 * 2^30 + 147939328
DefaultEpochStart == Instant(W(22422, 23486), 147939328)

\* one coarse time unit after DefaultEpochStart
LaterEpochStart == Instant(WAdd(DefaultEpochStart.q, 1), DefaultEpochStart.r)

\* ((now - epochStart) >> ignoredTimeBits) & intervalMask
IntervalAt(t, epochStart) ==
    LET borrow == IF t.r < epochStart.r THEN 1 ELSE 0
    IN  intervalMask(WAdd(WSub(t.q, epochStart.q), -borrow))

\* ------------------------------------------------------------ identifiers
\* The 8 bytes, most significant first, of the int64
\*   (top << (sequenceBits + machineIdBits)) | (field << machineIdBits) | machineId
\* for 0 <= field < 2^sequenceBits; the shift drops what leaves the 64 bits.
Layout(top, field, machineId) ==
    LET hi33  == top.hi % (2 ^ 17)
        hi    == hi33 \div 2
        lo    == ((hi33 % 2) * Limb + top.lo) \div 2
    IN  << hi \div 256, hi % 256, lo \div 256, lo % 256,
           (top.lo % 2) * 128 + (field \div 65536),
           (field \div 256) % 256, field % 256,
           machineId >>

\* RawOf with the machine id left out of the raw value
RawOfNoMachineId(interval, sequence, machineId) ==
    Layout(WAdd(interval, Shr32(sequence, sequenceBits)),
           sequence % (2 ^ sequenceBits), 0)

\* RawOf with the interval left out of the raw value
RawOfSequenceOnly(interval, sequence, machineId) ==
    Layout(W(0, Shr32(sequence, sequenceBits)),
           sequence % (2 ^ sequenceBits), machineId)

\* The raw value of flaker.next:
\*   raw := interval
\*   raw = (raw << sequenceBits) + int64(sequence)
\*   raw = (raw << machineIdBits) | int64(g.machineId)
\* The sum carries sequence >> sequenceBits into the interval.
RawOf(interval, sequence, machineId) ==
    Layout(WAdd(interval, Shr32(sequence, sequenceBits)),
           sequence % (2 ^ sequenceBits), machineId)

\* bit p (0 = least significant) of an 8 byte value
BitOf(v, p) == (v[8 - (p \div 8)] \div (2 ^ (p % 8))) % 2

\* ShuffleByte with the shift (i*8+l): every bit lands in bit 0 of uid[l]
ShuffleByteLowBit(raw, l) ==
    IF \E i \in 0..7 : BitOf(raw, i * 8 + l) = 1 THEN 1 ELSE 0

\* uid[l] after the loop over i = 0..7 of
\*   uid[l] |= byte((raw & (1 << (i*8+l))) >> (i*7+l))
\* bit i of uid[l] is bit i*8+l of raw
ShuffleByte(raw, l) ==
    BitOf(raw, l) + BitOf(raw, 8 + l) * 2 + BitOf(raw, 16 + l) * 4
    + BitOf(raw, 24 + l) * 8 + BitOf(raw, 32 + l) * 16 + BitOf(raw, 40 + l) * 32
    + BitOf(raw, 48 + l) * 64 + BitOf(raw, 56 + l) * 128

\* Shuffle with binary.BigEndian.Uint64(uid): uid[0] is the most significant byte
ShuffleBigEndian(raw) ==
    CHOOSE uid \in { [j \in 1..8 |-> ShuffleByte(r, j - 1)] : r \in {raw} } : TRUE

\* binary.LittleEndian.Uint64(uid): uid[7] is the most significant byte.
\* (r is the value of raw, worked out once.)
Shuffle(raw) ==
    CHOOSE uid \in { [j \in 1..8 |-> ShuffleByte(r, 8 - j)] : r \in {raw} } : TRUE

\* what flaker.Next returns for the raw value of g.next()
FlakeOf(g, raw) == IF g.raw THEN raw ELSE Shuffle(raw)

\* a < b as int64
FlakeLess(a, b) ==
    LET key(v) == [j \in 1..8 |-> IF j = 1 THEN (v[1] + 128) % 256 ELSE v[j]]
    IN  \E j \in 1..8 : /\ key(a)[j] < key(b)[j]
                        /\ \A k \in 1..(j - 1) : a[k] = b[k]

\* 0 <= v < 2^63
IsPositive63(v) == v[1] < 128

\* ------------------------------------------------------------ encoding
\* A Flake (int64) at rest: four 16 bit limbs, the first one signed.
FlakeZero == << 0, 0, 0, 0 >>

\* uint64(f)
Uint64(f) == << f[1] % Limb, f[2], f[3], f[4] >>

\* Flake.Bytes: binary.BigEndian.PutUint64(uid, uint64(f))
Bytes(f) ==
    [k \in 1..8 |-> IF k % 2 = 1 THEN Uint64(f)[(k + 1) \div 2] \div 256
                                 ELSE Uint64(f)[k \div 2] % 256]

\* Flake(binary.BigEndian.Uint64(b))
Int64OfBytes(b) ==
    << IF b[1] >= 128 THEN b[1] * 256 + b[2] - Limb ELSE b[1] * 256 + b[2],
       b[3] * 256 + b[4], b[5] * 256 + b[6], b[7] * 256 + b[8] >>

\* FromBytes: any length but 8 is "unknown format"
FromBytes(b) ==
    IF Len(b) # 8 THEN [flake |-> FlakeZero, err |-> TRUE]
    ELSE [flake |-> Int64OfBytes(b), err |-> FALSE]

\* encoding/hex: hextable, and the upper case digits that decoding takes too
hexDigits ==
    << "0", "1", "2", "3", "4", "5", "6", "7", "8", "9", "a", "b", "c", "d", "e", "f" >>

hexUpperDigits ==
    << "0", "1", "2", "3", "4", "5", "6", "7", "8", "9", "A", "B", "C", "D", "E", "F" >>

\* base32.HexEncoding ("extended hex alphabet"), without padding
base32RawEncoding ==
    << "0", "1", "2", "3", "4", "5", "6", "7", "8", "9", "A", "B", "C", "D", "E", "F",
       "G", "H", "I", "J", "K", "L", "M", "N", "O", "P", "Q", "R", "S", "T", "U", "V" >>

\* base64.RawURLEncoding: the URL alphabet, without padding
base64RawURLEncoding ==
    << "A", "B", "C", "D", "E", "F", "G", "H", "I", "J", "K", "L", "M", "N", "O", "P",
       "Q", "R", "S", "T", "U", "V", "W", "X", "Y", "Z", "a", "b", "c", "d", "e", "f",
       "g", "h", "i", "j", "k", "l", "m", "n", "o", "p", "q", "r", "s", "t", "u", "v",
       "w", "x", "y", "z", "0", "1", "2", "3", "4", "5", "6", "7", "8", "9", "-", "_" >>

\* bit p of the byte string b, counted from the most significant bit of
\* b[1]; the bits after the end are the zero bits an encoder fills up with
ByteBit(b, p) ==
    IF p \div 8 < Len(b) THEN (b[(p \div 8) + 1] \div (2 ^ (7 - (p % 8)))) % 2 ELSE 0

RECURSIVE Digit(_, _, _, _)
\* the w bits of b from bit p on, as a number (j of them are still to read)
Digit(b, w, p, j) ==
    IF j = 0 THEN 0
    ELSE ByteBit(b, p) * (2 ^ (j - 1)) + Digit(b, w, p + 1, j - 1)

\* EncodeToString of an encoding without padding whose digits have w bits
EncodeToString(alphabet, w, b) ==
    [k \in 1..((Len(b) * 8 + w - 1) \div w) |->
        alphabet[Digit(b, w, (k - 1) * w, w) + 1]]

\* ValueOf that takes a character of no alphabet for the digit 0
ValueOfLenient(alphabets, c) ==
    IF \E a \in alphabets : \E k \in DOMAIN a : a[k] = c
    THEN (CHOOSE k \in 1..64 : \E a \in alphabets : k \in DOMAIN a /\ a[k] = c) - 1
    ELSE 0

\* the value of the character c in one of the alphabets, -1 when it has none
ValueOf(alphabets, c) ==
    IF \E a \in alphabets : \E k \in DOMAIN a : a[k] = c
    THEN (CHOOSE k \in 1..64 : \E a \in alphabets : k \in DOMAIN a /\ a[k] = c) - 1
    ELSE -1

\* bit p of a string of digits of w bits each, given by their values v
DigitBit(v, w, p) == (v[(p \div w) + 1] \div (2 ^ (w - 1 - (p % w)))) % 2

RECURSIVE ByteAt(_, _, _, _)
\* the byte of 8 bits from bit p on (j of them are still to read)
ByteAt(v, w, p, j) ==
    IF j = 0 THEN 0
    ELSE DigitBit(v, w, p) * (2 ^ (j - 1)) + ByteAt(v, w, p + 1, j - 1)

\* DecodeString: a character outside the alphabet is an error, and so is a
\* last digit that belongs to no whole byte (hex: odd length; base64: one
\* digit over; base32: 1, 3 or 6 digits over, where the library may also
\* return fewer bytes: Decode ends in the same error).  Else the whole bytes
\* come out and the bits left over are dropped.
DecodeString(alphabets, w, s) ==
    LET v == [k \in DOMAIN s |-> ValueOf(alphabets, s[k])]
    IN  IF (\E k \in DOMAIN s : v[k] < 0) \/ (Len(s) * w) % 8 >= w
        THEN [bytes |-> << >>, err |-> TRUE]
        ELSE [bytes |-> [m \in 1..((Len(s) * w) \div 8) |-> ByteAt(v, w, (m - 1) * 8, 8)],
              err |-> FALSE]

\* encoding/base64 and encoding/base32 skip "\r" and "\n" in their input
StripNewlines(s) == SelectSeq(s, LAMBDA c : c \notin {"\r", "\n"})

\* Flake.Hex
Hex(f) == EncodeToString(hexDigits, 4, Bytes(f))

\* Flake.Base64
Base64(f) == EncodeToString(base64RawURLEncoding, 6, Bytes(f))

\* Flake.Base32
Base32(f) == EncodeToString(base32RawEncoding, 5, Bytes(f))

\* Decode with every length taken for hex
DecodeAsHex(s) ==
    LET r == DecodeString({hexDigits, hexUpperDigits}, 4, s)
    IN  IF r.err THEN [flake |-> FlakeZero, err |-> TRUE] ELSE FromBytes(r.bytes)

\* Decode: the length of s selects the decoder
Decode(s) ==
    LET r == IF Len(s) = 11
             THEN DecodeString({base64RawURLEncoding}, 6, StripNewlines(s))
             ELSE IF Len(s) = 13
             THEN DecodeString({base32RawEncoding}, 5, StripNewlines(s))
             ELSE IF Len(s) = 16 THEN DecodeString({hexDigits, hexUpperDigits}, 4, s)
             ELSE [bytes |-> << >>, err |-> TRUE]
    IN  IF r.err THEN [flake |-> FlakeZero, err |-> TRUE] ELSE FromBytes(r.bytes)

\* ------------------------------------------------------------ state
VARIABLES
    now,        \* time.Now().UnixNano(), an instant
    start,      \* the instant the run began at (never changes)
    inst,       \* the flaker structs: inst[i] is one generator instance
    holder,     \* holder[m]: the caller that holds sync.Mutex m, 0 when it is free
    pc,         \* pc[t]: where caller t is in Next
    g,          \* g[t]: the receiver of caller t's call (an index of inst)
    interval,   \* interval[t]: the local variable interval of flaker.next
    sequence,   \* sequence[t]: the local variable sequence of flaker.next
    pending,    \* pending[t]: randomByte() calls the current statement still makes
    results,    \* results[i]: what the calls on inst[i] returned, in order of return
    parent,     \* parent[i]: what inst[i] was copied from: the receiver (0 for Default /
                \* Raw), its sequence and currentInterval then, and the calls made by then
    calls,      \* Next calls started
    bursts,     \* summarised bursts taken
    flake,      \* the Flake the codec is applied to
    text,       \* the string an encoder returned or Decode is given
    bytes,      \* the byte slice Bytes returned or FromBytes is given
    decoded,    \* what Decode (of "text") or FromBytes (of "bytes") returned for
                \* the input in: [of, in, flake, err]
    shuffled    \* a raw value and what times applications of the shuffle of
                \* flaker.Next have made of it: [raw, uid, times]

codec == << flake, text, bytes, decoded, shuffled >>

vars == << now, start, inst, holder, pc, g, interval, sequence, pending,
           results, parent, calls, bursts, codec >>

NumCallers == 2

Callers == 1..NumCallers

\* the bytes randomByte() is let to return
RandomBytes == {0, 255}

\* the values of getLocalIPv4() & machineIdMask and of WithMachineId's argument
MachineIds == {0, 255}

\* the arguments of WithEpochStart
EpochStarts == {Unix0, LaterEpochStart}

\* A returned identifier, or a run of them: the calls whose local sequence ran
\* from lo to hi at one interval; first and last are the identifiers of lo and hi.
Entry(G, i, lo, hi) ==
    [ interval |-> i, lo |-> lo, hi |-> hi,
      first |-> FlakeOf(G, RawOf(i, lo, G.machineId)),
      last  |-> FlakeOf(G, RawOf(i, hi, G.machineId)) ]

\* var Default / var Raw
Flaker(raw, machineId) ==
    [ mutex |-> 1, raw |-> raw, machineId |-> machineIdMask(machineId),
      epochStart |-> DefaultEpochStart, sequence |-> 0, currentInterval |-> WZero ]

\* The run begins early in the epoch or in its last interval.
EarlyStart == Instant(WAdd(DefaultEpochStart.q, StartInterval), DefaultEpochStart.r)

LastIntervalStart ==
    Instant(W(DefaultEpochStart.q.hi + Limb - 1, DefaultEpochStart.q.lo + Limb - 1),
            DefaultEpochStart.r)

Starts == {EarlyStart, LastIntervalStart}

\* Calls made on the instance before the run begins, all at the instant start:
\* the first one set currentInterval, the others counted sequence up.
PriorCalls == {0, largeLimit - 1, 2 ^ sequenceBits - largeBase - 1}

\* no prior call at all: the instance is as constructed
Fresh == -1

InitCallers ==
    /\ holder = << 0 >>
    /\ pc = [t \in Callers |-> "idle"]
    /\ g = [t \in Callers |-> 1]
    /\ interval = [t \in Callers |-> WZero]
    /\ sequence = [t \in Callers |-> 0]
    /\ pending = [t \in Callers |-> 0]
    /\ parent = << [of |-> 0, sequence |-> 0, currentInterval |-> WZero, calls |-> 0] >>
    /\ calls = 0
    /\ bursts = 0

\* A generator right after construction, or after PriorCalls calls at start.
\* Of the identifiers of those calls, results keeps the ones that carry no
\* random byte (sequence >= largeLimit).
InitGenerator(starts, ids, prior) ==
    /\ start \in starts
    /\ now = start
    /\ \E raw \in BOOLEAN, m \in ids, n \in prior \cup {Fresh} :
         LET G0 == Flaker(raw, m)
             c0 == IntervalAt(start, G0.epochStart)
             G  == IF n = Fresh THEN G0
                   ELSE [G0 EXCEPT !.currentInterval = c0, !.sequence = n]
         IN  /\ inst = << G >>
             /\ results = << IF n >= largeLimit
                             THEN << Entry(G, c0, largeBase + largeLimit, largeBase + n) >>
                             ELSE << >> >>

\* the raw value 0
RawZero == << 0, 0, 0, 0, 0, 0, 0, 0 >>

\* the codec at rest
InitCodec ==
    /\ flake = FlakeZero
    /\ text = << >>
    /\ bytes = << >>
    /\ decoded = [of |-> "", in |-> << >>, flake |-> FlakeZero, err |-> FALSE]
    /\ shuffled = [raw |-> RawZero, uid |-> RawZero, times |-> 0]

Init == InitGenerator(Starts, MachineIds, PriorCalls) /\ InitCallers /\ InitCodec

\* ------------------------------------------------------------ flaker.next
\* interval := ((time.Now().UnixNano() - g.epochStart) >> ignoredTimeBits) & intervalMask
\* sequence := int32(0)
Call(t, i) ==
    /\ pc[t] = "idle"
    /\ i \in DOMAIN inst
    /\ g' = [g EXCEPT ![t] = i]
    /\ interval' = [interval EXCEPT ![t] = IntervalAt(now, inst[i].epochStart)]
    /\ sequence' = [sequence EXCEPT ![t] = 0]
    /\ pc' = [pc EXCEPT ![t] = "lock"]
    /\ calls' = calls + 1
    /\ UNCHANGED << now, start, inst, holder, pending, results, parent, bursts, codec >>

\* Lock that does not wait for the mutex to be free
LockNoWait(t) ==
    /\ pc[t] = "lock"
    /\ holder' = [holder EXCEPT ![inst[g[t]].mutex] = t]
    /\ pc' = [pc EXCEPT ![t] = "allocate"]
    /\ UNCHANGED << now, start, inst, g, interval, sequence, pending, results,
                    parent, calls, bursts, codec >>

\* g.mutex.Lock()
Lock(t) ==
    /\ pc[t] = "lock"
    /\ holder[inst[g[t]].mutex] = 0
    /\ holder' = [holder EXCEPT ![inst[g[t]].mutex] = t]
    /\ pc' = [pc EXCEPT ![t] = "allocate"]
    /\ UNCHANGED << now, start, inst, g, interval, sequence, pending, results,
                    parent, calls, bursts, codec >>

\* loop := (g.sequence + 0x400000 - 0x2020) >> sequenceBits
loopOf(seq) == Shr32(Add32(Add32(seq, 4194304), -8224), sequenceBits)

\* (a comparison with < in place of <=)
SameIntervalStrict(G, i) ==
    /\ WLe(WAdd(i, -loopOf(G.sequence)), G.currentInterval)
    /\ WAdd(i, -loopOf(G.sequence)) # G.currentInterval

\* interval-int64(loop) <= g.currentInterval
SameInterval(G, i) == WLe(WAdd(i, -loopOf(G.sequence)), G.currentInterval)

\* The statements between Lock and Unlock, up to the first randomByte().
Allocate(t) ==
    /\ pc[t] = "allocate"
    /\ LET G == inst[g[t]]
           n == Add32(G.sequence, 1)
       IN  IF SameInterval(G, interval[t])
           THEN /\ inst' = [inst EXCEPT ![g[t]].sequence = n]
                /\ IF n < smallLimit
                   THEN /\ sequence' = [sequence EXCEPT ![t] = Shl32(n, 16)]
                        /\ pending' = [pending EXCEPT ![t] = 2]
                        /\ pc' = [pc EXCEPT ![t] = "random"]
                   ELSE IF n < largeLimit
                   THEN /\ sequence' = [sequence EXCEPT ![t] = Add32(mediumBase, Shl32(n, 8))]
                        /\ pending' = [pending EXCEPT ![t] = 1]
                        /\ pc' = [pc EXCEPT ![t] = "random"]
                   ELSE /\ sequence' = [sequence EXCEPT ![t] = Add32(largeBase, n)]
                        /\ pending' = [pending EXCEPT ![t] = 0]
                        /\ pc' = [pc EXCEPT ![t] = "unlock"]
           ELSE /\ inst' = [inst EXCEPT ![g[t]].currentInterval = interval[t],
                                        ![g[t]].sequence = 0]
                /\ pc' = [pc EXCEPT ![t] = "unlock"]
                /\ UNCHANGED << sequence, pending >>
    /\ UNCHANGED << now, start, holder, g, interval, results, parent, calls, bursts, codec >>

\* One randomByte(): in (g.sequence << 16) | (randomByte() << 8) | randomByte()
\* the first goes to bits 8..15, the last (and the only one of the medium
\* branch) to bits 0..7.
RandomByte(t) ==
    /\ pc[t] = "random"
    /\ \E b \in RandomBytes :
         sequence' = [sequence EXCEPT
                        ![t] = Or32(@, IF pending[t] = 2 THEN Shl32(b, 8) ELSE b)]
    /\ pending' = [pending EXCEPT ![t] = @ - 1]
    /\ pc' = [pc EXCEPT ![t] = IF pending[t] = 1 THEN "unlock" ELSE "random"]
    /\ UNCHANGED << now, start, inst, holder, g, interval, results, parent, calls, bursts, codec >>

\* A return that leaves the mutex locked.
UnlockForgotten(t) ==
    /\ pc[t] = "unlock"
    /\ pc' = [pc EXCEPT ![t] = "return"]
    /\ UNCHANGED << now, start, inst, holder, g, interval, sequence, pending, results,
                    parent, calls, bursts, codec >>

\* g.mutex.Unlock()
Unlock(t) ==
    /\ pc[t] = "unlock"
    /\ holder' = [holder EXCEPT ![inst[g[t]].mutex] = 0]
    /\ pc' = [pc EXCEPT ![t] = "return"]
    /\ UNCHANGED << now, start, inst, g, interval, sequence, pending, results,
                    parent, calls, bursts, codec >>

\* The raw value is put together and Next returns it, shuffled unless g.raw.
Return(t) ==
    /\ pc[t] = "return"
    /\ results' = [results EXCEPT
                     ![g[t]] = Append(@, Entry(inst[g[t]], interval[t],
                                               sequence[t], sequence[t]))]
    /\ pc' = [pc EXCEPT ![t] = "idle"]
    /\ UNCHANGED << now, start, inst, holder, g, interval, sequence, pending,
                    parent, calls, bursts, codec >>

\* ------------------------------------------------------------ the clock
Elapsed == WSub(now.q, start.q).lo

\* The clock goes on by one coarse time unit.
Tick ==
    /\ Elapsed < MaxTicks
    /\ now' = Instant(WAdd(now.q, 1), now.r)
    /\ UNCHANGED << start, inst, holder, pc, g, interval, sequence, pending,
                    results, parent, calls, bursts, codec >>

\* ------------------------------------------------------------ configuration
\* WithMachineId without g.mutex = &sync.Mutex{}: the copy keeps the receiver's mutex
WithMachineIdSharedMutex(i, machineId) ==
    /\ i \in DOMAIN inst
    /\ Len(inst) < MaxInstances
    /\ \A t \in Callers : pc[t] = "idle"
    /\ inst' = Append(inst, [inst[i] EXCEPT !.machineId = machineId])
    /\ holder' = holder
    /\ results' = Append(results, << >>)
    /\ parent' = Append(parent, [of |-> i, sequence |-> inst[i].sequence,
                                 currentInterval |-> inst[i].currentInterval,
                                 calls |-> calls])
    /\ UNCHANGED << now, start, pc, g, interval, sequence, pending, calls, bursts, codec >>

\* func (g flaker) WithMachineId(machineId byte) Flaker: g is a copy
WithMachineId(i, machineId) ==
    /\ i \in DOMAIN inst
    /\ Len(inst) < MaxInstances
    /\ \A t \in Callers : pc[t] = "idle"
    /\ inst' = Append(inst, [inst[i] EXCEPT !.machineId = machineId,
                                            !.mutex = Len(holder) + 1])
    /\ holder' = Append(holder, 0)
    /\ results' = Append(results, << >>)
    /\ parent' = Append(parent, [of |-> i, sequence |-> inst[i].sequence,
                                 currentInterval |-> inst[i].currentInterval,
                                 calls |-> calls])
    /\ UNCHANGED << now, start, pc, g, interval, sequence, pending, calls, bursts, codec >>

\* func (g flaker) WithEpochStart(time time.Time) Flaker: g is a copy
WithEpochStart(i, time) ==
    /\ i \in DOMAIN inst
    /\ Len(inst) < MaxInstances
    /\ \A t \in Callers : pc[t] = "idle"
    /\ inst' = Append(inst, [inst[i] EXCEPT !.epochStart = time,
                                            !.mutex = Len(holder) + 1])
    /\ holder' = Append(holder, 0)
    /\ results' = Append(results, << >>)
    /\ parent' = Append(parent, [of |-> i, sequence |-> inst[i].sequence,
                                 currentInterval |-> inst[i].currentInterval,
                                 calls |-> calls])
    /\ UNCHANGED << now, start, pc, g, interval, sequence, pending, calls, bursts, codec >>

\* ------------------------------------------------------------ bursts
\* generate(t, f, m, count) with count = BurstSize while every call takes the
\* branch without random bytes and the clock stands still: the calls count
\* g.sequence up one by one and return RawOf(interval, largeBase + g.sequence).
Burst(i) ==
    /\ i \in DOMAIN inst
    /\ bursts < MaxBursts
    /\ \A t \in Callers : pc[t] = "idle"
    /\ LET G == inst[i]
           c == IntervalAt(now, G.epochStart)
       IN  /\ G.sequence >= largeLimit - 1
           /\ G.sequence <= MaxInt32 - largeBase - BurstSize
           /\ SameInterval(G, c)
           /\ inst' = [inst EXCEPT ![i].sequence = G.sequence + BurstSize]
           /\ results' = [results EXCEPT
                            ![i] = Append(@, Entry(G, c, largeBase + G.sequence + 1,
                                                   largeBase + G.sequence + BurstSize))]
    /\ bursts' = bursts + 1
    /\ UNCHANGED << now, start, holder, pc, g, interval, sequence, pending,
                    parent, calls, codec >>

\* ------------------------------------------------------------ one generator, one caller
Next ==
    \/ calls < MaxCalls /\ Call(1, 1)
    \/ Lock(1)
    \/ Allocate(1)
    \/ RandomByte(1)
    \/ Unlock(1)
    \/ Return(1)
    \/ Tick
    \/ Burst(1)

Spec == Init /\ [][Next]_vars

\* ------------------------------------------------------------ configured instances, one caller
ConfigPriorCalls == {2 ^ sequenceBits - largeBase - 1}

ConfigInit ==
    InitGenerator({EarlyStart}, {0}, ConfigPriorCalls) /\ InitCallers /\ InitCodec

\* One caller reads the clock only in Call: a tick during a call is the tick
\* right after it.
ConfigTick == Elapsed < MaxConfigTicks /\ pc[1] = "idle" /\ Tick

ConfigNext ==
    \/ \E i \in 1..MaxInstances : calls < MaxCalls /\ Call(1, i)
    \/ Lock(1)
    \/ Allocate(1)
    \/ RandomByte(1)
    \/ Unlock(1)
    \/ Return(1)
    \/ ConfigTick
    \/ \E i \in 1..MaxInstances, m \in MachineIds \ {0} : WithMachineId(i, m)
    \/ \E i \in 1..MaxInstances, e \in EpochStarts : WithEpochStart(i, e)

ConfigSpec == ConfigInit /\ [][ConfigNext]_vars

\* ------------------------------------------------------------ one generator, several callers
\* Default after its first call (which has set currentInterval), called by
\* every caller as in TestMultithreading.
SharedInit ==
    /\ InitGenerator({EarlyStart}, {0}, {0}) /\ InitCallers /\ InitCodec
    /\ ~inst[1].raw

SharedCall(t) == calls < MaxSharedCalls /\ Call(t, 1)

SharedTick == Elapsed < MaxSharedTicks /\ Tick

SharedNext ==
    \/ \E t \in Callers :
        \/ SharedCall(t)
        \/ Lock(t)
        \/ Allocate(t)
        \/ RandomByte(t)
        \/ Unlock(t)
        \/ Return(t)
    \/ SharedTick

SharedSpec == SharedInit /\ [][SharedNext]_vars

\* ------------------------------------------------------------ fair scheduling
FairCall(t) == calls < MaxFairCalls /\ Call(t, 1)

FairNext ==
    \E t \in Callers :
        \/ FairCall(t)
        \/ Lock(t)
        \/ Allocate(t)
        \/ RandomByte(t)
        \/ Unlock(t)
        \/ Return(t)

\* A goroutine that can run is run in the end: weak fairness of each step of
\* a call, Lock included (sync.Mutex hands a free mutex to a goroutine that
\* waits for it).  Starting a call is the caller's choice and not fair.
Fairness ==
    \A t \in Callers :
        /\ WF_vars(Allocate(t) \/ RandomByte(t) \/ Unlock(t) \/ Return(t))
        /\ WF_vars(Lock(t))

FairSpec == SharedInit /\ [][FairNext]_vars /\ Fairness

\* ------------------------------------------------------------ the codec
\* The Flakes the codec is tried on: every mix of the limbs below, among
\* them 0, -1, the least and the greatest int64 and 0x4030404040700001.
TopLimbs == {-32768, -1, 0, 16432, 32767}

LowLimbs == {0, 1, 16448, 16496, 65535}

FlakeSamples == { << a, b, c, d >> : a \in TopLimbs, b \in {0, 16448, 65535},
                                     c \in {0, 16496, 65535}, d \in LowLimbs }

Generator == << now, start, inst, holder, pc, g, interval, sequence, pending,
                results, parent, calls, bursts >>

CodecInit ==
    /\ InitGenerator({EarlyStart}, {0}, {0}) /\ InitCallers
    /\ ~inst[1].raw /\ inst[1].currentInterval = WZero
    /\ flake \in FlakeSamples
    /\ text = << >>
    /\ bytes = << >>
    /\ decoded = [of |-> "", in |-> << >>, flake |-> FlakeZero, err |-> FALSE]
    /\ shuffled = [raw |-> RawZero, uid |-> RawZero, times |-> 0]

\* text := flake.Hex()
EncodeHex ==
    /\ text' = Hex(flake)
    /\ UNCHANGED << Generator, shuffled, flake, bytes, decoded >>

\* text := flake.Base32()
EncodeBase32 ==
    /\ text' = Base32(flake)
    /\ UNCHANGED << Generator, shuffled, flake, bytes, decoded >>

\* text := flake.Base64()
EncodeBase64 ==
    /\ text' = Base64(flake)
    /\ UNCHANGED << Generator, shuffled, flake, bytes, decoded >>

\* bytes := flake.Bytes()
TakeBytes ==
    /\ bytes' = Bytes(flake)
    /\ UNCHANGED << Generator, shuffled, flake, text, decoded >>

\* decoded := Decode(text)
DecodeText ==
    /\ decoded' = [of |-> "text", in |-> text] @@ Decode(text)
    /\ UNCHANGED << Generator, shuffled, flake, text, bytes >>

\* decoded := FromBytes(bytes)
DecodeBytes ==
    /\ decoded' = [of |-> "bytes", in |-> bytes] @@ FromBytes(bytes)
    /\ UNCHANGED << Generator, shuffled, flake, text, bytes >>

CodecNext ==
    \/ EncodeHex
    \/ EncodeBase32
    \/ EncodeBase64
    \/ TakeBytes
    \/ DecodeText
    \/ DecodeBytes

CodecSpec == CodecInit /\ [][CodecNext]_vars

\* ------------------------------------------------------------ Decode on any input
\* characters put in place of a digit: digits of one alphabet and not of
\* another, a newline, and characters of no alphabet
OddChars == { "g", "W", "F", "-", "+", "=", "\n", " " }

\* The strings Decode is tried on: what the encoders return for two Flakes,
\* every prefix of it (all lengths from 0 on), one character more, and one
\* character replaced at the front, in the middle or at the end.
EncodedSamples ==
    UNION { { Hex(f), Base32(f), Base64(f) } :
            f \in { << 16432, 16448, 16496, 1 >>, << -1, 65535, 43981, 61185 >> } }

TextInputs ==
    UNION { { SubSeq(s, 1, n) : n \in 0..Len(s) }
            \cup { Append(s, c) : c \in OddChars }
            \cup { [s EXCEPT ![k] = c] :
                     k \in {1, Len(s) \div 2, Len(s)}, c \in OddChars }
            : s \in EncodedSamples }

\* The byte slices FromBytes is tried on: 0 to 9 bytes, and 8 bytes with the
\* most significant bit set.
BytesInputs ==
    { SubSeq(<< 64, 48, 64, 64, 64, 112, 0, 1, 255 >>, 1, n) : n \in 0..9 }
    \cup { << 128, 0, 0, 0, 0, 0, 0, 0 >> }

DecodeInit ==
    /\ InitGenerator({EarlyStart}, {0}, {0}) /\ InitCallers
    /\ ~inst[1].raw /\ inst[1].currentInterval = WZero
    /\ flake = FlakeZero
    /\ text \in TextInputs
    /\ bytes \in BytesInputs
    /\ decoded = [of |-> "", in |-> << >>, flake |-> FlakeZero, err |-> FALSE]
    /\ shuffled = [raw |-> RawZero, uid |-> RawZero, times |-> 0]

DecodeNext ==
    \/ DecodeText
    \/ DecodeBytes

DecodeSpec == DecodeInit /\ [][DecodeNext]_vars

\* ------------------------------------------------------------ one interval
\* "up to 4,000,000 IDs each second"
ClaimedCapacity == 4000000

\* One generator, one caller, the clock standing still: the generator is new
\* or has been called, in this interval, up to just before one of the
\* thresholds of flaker.next or up to just before ClaimedCapacity calls.
LadderPriors == {0, smallLimit - 2, largeLimit - 2, ClaimedCapacity - 3}

LadderInit ==
    InitGenerator({EarlyStart}, {0}, LadderPriors) /\ InitCallers /\ InitCodec

LadderCall == calls < MaxLadderCalls /\ Call(1, 1)

LadderNext ==
    \/ LadderCall
    \/ Lock(1)
    \/ Allocate(1)
    \/ RandomByte(1)
    \/ Unlock(1)
    \/ Return(1)

LadderSpec == LadderInit /\ [][LadderNext]_vars

\* ------------------------------------------------------------ the shuffle
\* the raw value with bit p alone
UnitRaw(p) == [j \in 1..8 |-> IF j = 8 - (p \div 8) THEN 2 ^ (p % 8) ELSE 0]

\* The raw values the shuffle is tried on: 0, each single bit, all bits, the
\* raw values of the four identifiers of the README's table, and raw values
\* flaker.next makes up at the last interval.
RawSamples ==
    { UnitRaw(p) : p \in 0..63 }
    \cup { RawZero, << 255, 255, 255, 255, 255, 255, 255, 255 >>,
           << 0, 188, 68, 68, 0, 0, 0, 1 >>, << 0, 188, 68, 68, 1, 247, 179, 1 >>,
           << 0, 188, 68, 68, 2, 32, 3, 1 >>, << 0, 188, 68, 68, 3, 92, 174, 1 >> }
    \cup { RawOf(W(Limb - 1, Limb - 1), f, m) :
             f \in {0, 65536 + 255, largeBase + largeLimit}, m \in MachineIds }

ShuffleInit ==
    /\ InitGenerator({EarlyStart}, {0}, {0}) /\ InitCallers
    /\ ~inst[1].raw /\ inst[1].currentInterval = WZero
    /\ flake = FlakeZero
    /\ text = << >>
    /\ bytes = << >>
    /\ decoded = [of |-> "", in |-> << >>, flake |-> FlakeZero, err |-> FALSE]
    /\ shuffled \in { [raw |-> r, uid |-> r, times |-> 0] : r \in RawSamples }

\* the "Shuffle bits" loops of flaker.Next, applied to what is there
ApplyShuffle ==
    /\ shuffled.times < MaxShuffles
    /\ shuffled' = [shuffled EXCEPT !.uid = Shuffle(@), !.times = @ + 1]
    /\ UNCHANGED << Generator, flake, text, bytes, decoded >>

ShuffleNext == ApplyShuffle

ShuffleSpec == ShuffleInit /\ [][ShuffleNext]_vars

\* ------------------------------------------------------------ callers and the clock
\* The callers of FairSpec, the clock going on between their steps.
RaceNext ==
    \/ FairNext
    \/ SharedTick

RaceSpec == SharedInit /\ [][RaceNext]_vars

\* ------------------------------------------------------------ a clock that is set back
\* the coarse time units from start to now, negative when now is earlier
ClockOffset == LET d == WSub(now.q, start.q) IN d.hi * Limb + d.lo

\* time.Now() moves by k coarse time units
ClockStep(k) ==
    /\ now' = Instant(WAdd(now.q, k), now.r)
    /\ UNCHANGED << start, inst, holder, pc, g, interval, sequence, pending,
                    results, parent, calls, bursts, codec >>

ClockOn == ClockOffset < MaxClockOn /\ ClockStep(1)

\* the wall clock is set back (time.Now().UnixNano() is not monotonic)
ClockBack == ClockOffset > -MaxClockBack /\ ClockStep(-1)

\* The generator is new, or has set currentInterval at start and has been
\* called since, without a reset, up to the last value of g.sequence whose
\* sum with 0x400000 - 0x2020 is an int32.
RegressPriors == {0, largeLimit - 1, MaxInt32 - largeBase}

RegressInit ==
    InitGenerator({EarlyStart}, {0}, RegressPriors) /\ InitCallers /\ InitCodec

RegressCall == calls < MaxRegressCalls /\ Call(1, 1)

RegressNext ==
    \/ RegressCall
    \/ Lock(1)
    \/ Allocate(1)
    \/ RandomByte(1)
    \/ Unlock(1)
    \/ Return(1)
    \/ ClockOn
    \/ ClockBack

RegressSpec == RegressInit /\ [][RegressNext]_vars

\* ------------------------------------------------------------ callers and a drifting clock
\* The generator has set currentInterval at start and has been called since,
\* up to the last call whose field does not carry: with the next call loop is
\* 1 and a clock that is one unit ahead brings no reset.
DriftPriors == {2 ^ sequenceBits - largeBase - 1}

DriftInit ==
    /\ InitGenerator({EarlyStart}, {0}, DriftPriors) /\ InitCallers /\ InitCodec
    /\ ~inst[1].raw
    /\ inst[1].sequence > 0

DriftCall(t) == calls < MaxDriftCalls /\ Call(t, 1)

\* the two goroutines that call
DriftCallers == {1, 2}

\* Two goroutines call Next on one generator while the wall clock moves on and
\* is set back.
DriftNext ==
    \/ \E t \in DriftCallers :
        \/ DriftCall(t)
        \/ Lock(t)
        \/ Allocate(t)
        \/ RandomByte(t)
        \/ Unlock(t)
        \/ Return(t)
    \/ ClockOn
    \/ ClockBack

DriftSpec == DriftInit /\ [][DriftNext]_vars

\* ------------------------------------------------------------ what was returned
\* The clock of instance i has not wrapped around the end of its epoch, and
\* is more than a limb of intervals away from doing so.
NotWrapped(i) ==
    /\ WLe(IntervalAt(start, inst[i].epochStart), IntervalAt(now, inst[i].epochStart))
    /\ IntervalAt(now, inst[i].epochStart).hi < Limb - 1

IsSingle(e) == e.lo = e.hi

\* The entry e of instance G holds the identifier of the single entry x: the
\* local sequence s that would give x's raw value at e's interval is looked up
\* in e's range, and its identifier compared.
Holds(G, e, x) ==
    LET d == WSub(WAdd(x.interval, Shr32(x.lo, sequenceBits)), e.interval)
        s == d.lo * (2 ^ sequenceBits) + (x.lo % (2 ^ sequenceBits))
    IN  /\ d.hi = 0
        /\ d.lo < 2 ^ (31 - sequenceBits)
        /\ e.lo <= s
        /\ s <= e.hi
        /\ FlakeOf(G, RawOf(e.interval, s, G.machineId)) = x.first

\* Two entries of instance G share an identifier.
SameFlake(G, a, b) ==
    \/ IsSingle(b) /\ Holds(G, a, b)
    \/ IsSingle(a) /\ Holds(G, b, a)

\* C1 (as claimed): one generator, called sequentially under a clock that has
\* not wrapped, never returns the same identifier twice.
C1_NoDuplicate ==
    NotWrapped(1) =>
        \A p, q \in DOMAIN results[1] :
            p < q => ~SameFlake(inst[1], results[1][p], results[1][q])

\* C5 (as claimed): every identifier Next returns is in 0 .. 2^63 - 1.
C5_Positive ==
    \A e \in { results[1][p] : p \in DOMAIN results[1] } :
        IsPositive63(e.first) /\ IsPositive63(e.last)

\* C6 (as claimed): in raw mode, under a clock that has not wrapped, a returned
\* raw value is never less than the one returned before it.
C6_NonDecreasing ==
    (inst[1].raw /\ NotWrapped(1)) =>
        \A p \in DOMAIN results[1] :
            p > 1 => ~FlakeLess(results[1][p].first, results[1][p - 1].last)

\* ------------------------------------------------------------ configured instances
Entries(i) == { results[i][p] : p \in DOMAIN results[i] }

Flakes(i) == { e.first : e \in Entries(i) } \cup { e.last : e \in Entries(i) }

\* the 23 bit field of the entry did not carry into the interval bits
NoCarry(e) == e.lo >= 0 /\ e.hi < 2 ^ sequenceBits

\* C3: two instances with different node identifiers never return the same
\* identifier.
C3_DistinctMachines ==
    \A i, j \in DOMAIN inst :
        inst[i].machineId # inst[j].machineId => Flakes(i) \cap Flakes(j) = {}

\* C3's case: two instances with different node identifiers have both returned
\* identifiers, one of them after its field carried into the interval bits.
C3_Witness ==
    \E i, j \in DOMAIN inst :
        /\ inst[i].machineId # inst[j].machineId
        /\ \E a \in Entries(i) : ~NoCarry(a)
        /\ Entries(j) # {}

\* C4 (as claimed): two instances with the same node identifier and different
\* epoch origins never return the same identifier.
C4_DistinctEpochs ==
    \A i, j \in DOMAIN inst :
        (inst[i].machineId = inst[j].machineId /\ inst[i].epochStart # inst[j].epochStart)
            => Flakes(i) \cap Flakes(j) = {}

\* C4 (amended): two instances with the same node identifier and different
\* epoch origins return different identifiers for two calls that observed
\* different intervals, each relative to its own epoch origin, when neither
\* call's field carried into the interval bits.
C4_DistinctIntervals ==
    \A i, j \in DOMAIN inst :
        (inst[i].machineId = inst[j].machineId /\ inst[i].epochStart # inst[j].epochStart)
            => \A a \in Entries(i), b \in Entries(j) :
                   (a.interval # b.interval /\ NoCarry(a) /\ NoCarry(b))
                       => a.first # b.first

\* C4's case: such a pair of instances has returned identifiers at different
\* intervals, without carry.
C4_Witness ==
    \E i, j \in DOMAIN inst :
        /\ inst[i].machineId = inst[j].machineId
        /\ inst[i].epochStart # inst[j].epochStart
        /\ \E a \in Entries(i), b \in Entries(j) :
               a.interval # b.interval /\ NoCarry(a) /\ NoCarry(b)

\* C8: a step changes the fields of an instance, or the state of its mutex,
\* only if it is a step of a Next call on that very instance: WithMachineId
\* and WithEpochStart leave the receiver as it is, and a call on the receiver
\* or on the copy leaves the other one as it is.
C8_Frame ==
    [][ \A i \in DOMAIN inst :
            (inst'[i] # inst[i] \/ holder'[inst'[i].mutex] # holder[inst[i].mutex])
                => (pc[1] # "idle" /\ g[1] = i) ]_vars

\* C8's case: after the copy was made, Next has returned on the receiver and
\* on the copy.
C8_Witness ==
    \E i \in DOMAIN inst :
        /\ parent[i].of # 0
        /\ parent[i].calls = 0
        /\ results[i] # << >>
        /\ results[parent[i].of] # << >>

\* C9 (as claimed): the instance WithMachineId or WithEpochStart returns starts
\* with sequence = 0 and currentInterval = 0.
C9_ZeroedCopy ==
    [][ \A i \in DOMAIN inst' :
            i \notin DOMAIN inst
                => inst'[i].sequence = 0 /\ inst'[i].currentInterval = WZero ]_vars

\* C2 (as claimed): when several callers call Next on one generator, no
\* identifier is returned twice, whatever the interleaving.
C2_NoDuplicateShared ==
    NotWrapped(1) =>
        \A p, q \in DOMAIN results[1] :
            p < q => results[1][p].first # results[1][q].first

\* C7: under fair scheduling every call of Next that has started returns, and
\* a caller holds the mutex only between Lock and Unlock: outside the
\* critical section (before Lock, after Unlock, between calls) it has
\* released it.  next has no loop and no error result: a call is at one of
\* the six positions of pc and leaves each of them by one step.
C7_AlwaysReturns ==
    /\ \A t \in Callers : (pc[t] # "idle") ~> (pc[t] = "idle")
    /\ [](\A t \in Callers :
            /\ pc[t] \in {"idle", "lock", "allocate", "random", "unlock", "return"}
            /\ pc[t] \in {"idle", "lock", "return"} =>
                   \A m \in DOMAIN holder : holder[m] # t)

\* Every call the run may start has been started, one of them had to wait
\* for the mutex, and all have returned.
C7_Witness ==
    /\ calls = MaxFairCalls
    /\ \A t \in Callers : pc[t] = "idle"
    /\ Len(results[1]) = MaxFairCalls
    /\ MaxFairCalls >= 2

\* C10: whatever is decoded from what an encoder returned for a Flake is that
\* Flake, without error: Decode of its Hex, Base32 and Base64 strings and
\* FromBytes of its Bytes; the strings have 16, 13 and 11 characters.
C10_RoundTrip ==
    /\ Len(Hex(flake)) = 16 /\ Len(Base32(flake)) = 13 /\ Len(Base64(flake)) = 11
    /\ decoded.of = "text" =>
           (decoded.in \in {Hex(flake), Base32(flake), Base64(flake)} =>
                decoded.flake = flake /\ ~decoded.err)
    /\ decoded.of = "bytes" =>
           (decoded.in = Bytes(flake) => decoded.flake = flake /\ ~decoded.err)

\* 0x4030404040700001 has been encoded to the Base32 string of the README's
\* table and decoded from it.
C10_Witness ==
    /\ flake = << 16432, 16448, 16496, 1 >>
    /\ text = << "8", "0", "O", "4", "0", "G", "2", "0", "E", "0", "0", "0", "2" >>
    /\ Base64(flake) = << "Q", "D", "B", "A", "Q", "E", "B", "w", "A", "A", "E" >>
    /\ decoded = [of |-> "text", in |-> text, flake |-> flake, err |-> FALSE]
    /\ bytes = << 64, 48, 64, 64, 64, 112, 0, 1 >>

\* the characters Decode takes as digits in a string of n characters
DigitsOfLength(n) ==
    IF n = 11 THEN { base64RawURLEncoding[k] : k \in 1..64 }
    ELSE IF n = 13 THEN { base32RawEncoding[k] : k \in 1..32 }
    ELSE { hexDigits[k] : k \in 1..16 } \cup { hexUpperDigits[k] : k \in 1..16 }

\* C11: Decode returns an error and the zero Flake for a string whose length
\* is not 11, 13 or 16 (the empty string too) and for a string of such a
\* length with a character that is no digit of the encoding of that length
\* (for hex, the digits in either case); FromBytes returns an error and the
\* zero Flake for a slice that has not 8 bytes.
C11_Rejects ==
    /\ decoded.of = "text" =>
         ((\/ Len(decoded.in) \notin {11, 13, 16}
           \/ \E k \in DOMAIN decoded.in :
                  decoded.in[k] \notin DigitsOfLength(Len(decoded.in)))
          => decoded.err /\ decoded.flake = FlakeZero)
    /\ decoded.of = "bytes" =>
         (Len(decoded.in) # 8 => decoded.err /\ decoded.flake = FlakeZero)

\* Decode has refused a string of 16 characters for its last character.
C11_Witness ==
    /\ decoded.of = "text"
    /\ Len(decoded.in) = 16
    /\ decoded.in[16] \notin DigitsOfLength(16)
    /\ \A k \in 1..15 : decoded.in[k] \in DigitsOfLength(16)
    /\ decoded.err

\* the entries of inst[1]'s calls that observed the interval it is in
EntriesOfInterval ==
    { p \in DOMAIN results[1] : results[1][p].interval = inst[1].currentInterval }

\* C12: while the clock stays in one interval and no more than
\* ClaimedCapacity calls have been made in it (the call that set
\* currentInterval and g.sequence calls after it), the 23 bit fields of the
\* identifiers returned are below 2^23 (no carry) and pairwise distinct.
C12_Capacity ==
    inst[1].sequence + 1 <= ClaimedCapacity =>
        /\ \A p \in EntriesOfInterval : NoCarry(results[1][p])
        /\ \A p, q \in EntriesOfInterval :
               p # q => \/ results[1][p].hi < results[1][q].lo
                        \/ results[1][q].hi < results[1][p].lo

\* The call number ClaimedCapacity of the interval has returned, after the
\* run of calls without random bytes before it.
C12_Witness ==
    /\ inst[1].sequence + 1 = ClaimedCapacity
    /\ pc[1] = "idle"
    /\ Len(results[1]) = 3
    /\ results[1][3].lo = largeBase + ClaimedCapacity - 1
    /\ results[1][1].lo = largeBase + largeLimit

\* "decrease to 1 byte when more than 64 Ids generated"
ClaimedTwoByteIds == 64

\* C13 (as claimed): a call that returns one of the first 64 identifiers of
\* an interval and counts g.sequence up (the identifier number g.sequence + 1)
\* reads two random bytes.
C13_TwoBytesUpTo64 ==
    [][(/\ pc[1] = "allocate"
        /\ pc'[1] # "allocate"
        /\ inst'[1].sequence >= 1
        /\ inst'[1].sequence + 1 <= ClaimedTwoByteIds) => pending'[1] = 2]_vars

\* the random bytes a field can carry
RandomPairs == { a * 256 + b : a, b \in RandomBytes }

C15_ResetIsLowLoad ==
    [][(/\ pc[1] = "allocate"
        /\ pc'[1] # "allocate"
        /\ inst'[1].sequence = 0) => (pc'[1] = "random" /\ pending'[1] = 2)]_vars

\* where the permutation of the claim takes bit p: bit l of byte s goes to
\* bit s of byte l
Dest(p) == 8 * (p % 8) + (p \div 8)

\* C16: the shuffle moves bit p of the raw value to bit Dest(p), Dest is a
\* permutation of the 64 positions that takes exactly one bit of every source
\* byte to every destination byte, and two different raw values have
\* different shuffled values.
C16_Permutation ==
    /\ { Dest(p) : p \in 0..63 } = 0..63
    /\ \A s, d \in 0..7 : Cardinality({ l \in 0..7 : Dest(8 * s + l) \div 8 = d }) = 1
    /\ shuffled.times = 1 =>
         /\ \A p \in 0..63 : BitOf(shuffled.uid, Dest(p)) = BitOf(shuffled.raw, p)
         /\ \A r \in RawSamples : r # shuffled.raw => Shuffle(r) # shuffled.uid

\* The raw value of the first identifier of the README's table has been
\* shuffled to that identifier, 0x4030404040700001.
C16_Witness ==
    /\ shuffled.times = 1
    /\ shuffled.raw = << 0, 188, 68, 68, 0, 0, 0, 1 >>
    /\ shuffled.uid = << 64, 48, 64, 64, 64, 112, 0, 1 >>

\* C17 (as claimed): the shuffle is not self-inverse: shuffled twice, some
\* raw value does not come back.
C17_NotSelfInverse ==
    shuffled.times = 2 =>
        \/ shuffled.uid # shuffled.raw
        \/ \E r \in RawSamples : Shuffle(Shuffle(r)) # r

\* C17 (amended): the shuffle is self-inverse: shuffled an even number of
\* times a raw value comes back, shuffled an odd number of times it is what
\* one shuffle makes of it.
C17_SelfInverse ==
    /\ shuffled.times % 2 = 0 => shuffled.uid = shuffled.raw
    /\ shuffled.times % 2 = 1 => shuffled.uid = Shuffle(shuffled.raw)

\* A raw value that one shuffle changes has been shuffled twice.
C17_Witness ==
    /\ shuffled.times = 2
    /\ shuffled.raw = << 0, 188, 68, 68, 1, 247, 179, 1 >>
    /\ Shuffle(shuffled.raw) = << 70, 52, 70, 70, 64, 116, 6, 15 >>
    /\ shuffled.uid = shuffled.raw

\* C18 (as claimed): no caller executes randomByte while it holds the mutex
\* of the generator it calls.
C18_RandomOutsideMutex ==
    \A t \in Callers : pc[t] = "random" => holder[inst[g[t]].mutex] # t

\* the value of g.sequence a field was made up from
CounterOf(field) ==
    IF field < 2097152 THEN field \div 65536
    ELSE IF field < 4194304 THEN (field - 2088960) \div 256
    ELSE field - 4186080

\* C19: the calls on one generator read and write (currentInterval, sequence)
\* one at a time: at most one caller is between Lock and Unlock; the counter
\* its field is made up from is the generator's g.sequence, which no other
\* call has changed meanwhile; and every step that changes g.sequence counts
\* it up by one or sets it to 0 together with currentInterval, so between two
\* resets no value is given twice and none is left out.
C19_Atomic ==
    /\ [](\A t, u \in Callers :
            (pc[t] \in {"allocate", "random", "unlock"} /\
             pc[u] \in {"allocate", "random", "unlock"}) => t = u)
    /\ [](\A t \in Callers :
            pc[t] \in {"random", "unlock"} =>
                CounterOf(sequence[t]) = inst[g[t]].sequence)
    /\ [][inst'[1].sequence # inst[1].sequence =>
            \/ inst'[1].sequence = inst[1].sequence + 1
                   /\ inst'[1].currentInterval = inst[1].currentInterval
            \/ inst'[1].sequence = 0
                   /\ inst'[1].currentInterval # inst[1].currentInterval]_vars

\* Two calls have counted g.sequence up to 1 and to 2 and have returned.
C19_Witness ==
    /\ inst[1].sequence = 2
    /\ Len(results[1]) = 2
    /\ CounterOf(results[1][1].lo) = 1
    /\ CounterOf(results[1][2].lo) = 2
    /\ \A t \in Callers : pc[t] = "idle"

\* the interval bits (31..62) of a raw value
IntervalOfRaw(v) ==
    W(((v[1] * 256 + v[2]) * 2 + (v[3] \div 128)) % Limb,
      ((v[3] % 128) * 256 + v[4]) * 2 + (v[5] \div 128))

\* C20 (as claimed): a call that observes an interval less than or equal to
\* currentInterval counts g.sequence up by one and leaves currentInterval as
\* it is, and the identifier it returns holds the interval it observed (read
\* off the raw value when the field did not carry).
C20_RegressionAbsorbed ==
    /\ [][(/\ pc[1] = "allocate"
           /\ pc'[1] # "allocate"
           /\ WLe(interval[1], inst[1].currentInterval))
          => (/\ inst'[1].sequence = inst[1].sequence + 1
              /\ inst'[1].currentInterval = inst[1].currentInterval)]_vars
    /\ [](inst[1].raw =>
            \A p \in DOMAIN results[1] :
                LET e == results[1][p]
                IN  (IsSingle(e) /\ NoCarry(e)) => IntervalOfRaw(e.first) = e.interval)

\* C21 (as claimed): what Decode or FromBytes returns without error is an
\* identifier, 0 <= x < 2^63: its first limb, the signed one, is not negative.
C21_DecodedInRange ==
    (decoded.of # "" /\ ~decoded.err) => decoded.flake[1] >= 0

\* C22 (as claimed): between two resets the fields handed out grow strictly in
\* the order of the calls through the critical section, whatever the random
\* bytes: the field a call has made up is 0 when the call reset the counter,
\* lies in [0x10000, 0x1FFFFF] under low load (g.sequence < 32), in
\* [0x200000, 0x3FFFFF] under medium load (g.sequence < 8224) and is at least
\* 0x400000 under high load, and when the call did not reset it is greater
\* than the field of the call before it.
C22_FieldsIncrease ==
    pc[1] = "unlock" =>
        LET n == inst[1].sequence
            field == sequence[1]
        IN  /\ n = 0 => field = 0
            /\ (1 <= n /\ n < 32) => (65536 <= field /\ field <= 2097151)
            /\ (32 <= n /\ n < 8224) => (2097152 <= field /\ field <= 4194303)
            /\ n >= 8224 => field >= 4194304
            /\ (n >= 1 /\ results[1] # << >>) =>
                   results[1][Len(results[1])].hi < field

\* C23: for one generator, whether the calls come one after another or
\* together and whichever way the clock moves, as long as g.sequence has not
\* reached the int32 overflow of its sum with 0x400000 - 0x2020:
\* currentInterval never decreases; the step of a call that updates the
\* counters sets sequence to 0 when it changes currentInterval and counts
\* sequence up by exactly 1 when it does not; and no other step touches them.
C23_Counters ==
    [][LET G == inst[1]
           H == inst'[1]
           updates == \E t \in Callers : pc[t] = "allocate" /\ pc'[t] # "allocate"
       IN  G.sequence < MaxInt32 - largeBase =>
               /\ WLe(G.currentInterval, H.currentInterval)
               /\ updates =>
                      IF H.currentInterval # G.currentInterval
                      THEN H.sequence = 0
                      ELSE H.sequence = G.sequence + 1
               /\ ~updates =>
                      /\ H.currentInterval = G.currentInterval
                      /\ H.sequence = G.sequence]_vars

\* The clock moved on, a call set currentInterval to the later interval and
\* sequence to 0, the clock was set back, and a call that observed the earlier
\* interval has counted sequence up to 1.
C23_Witness ==
    /\ inst[1].currentInterval = W(0, StartInterval + 1)
    /\ inst[1].sequence = 1
    /\ \E t \in Callers :
        /\ pc[t] = "unlock"
        /\ interval[t] # inst[1].currentInterval
        /\ WLe(interval[t], inst[1].currentInterval)

=============================================================================
